---- MODULE Spec2Model ----
(***************************************************************************)
(* Model of osu_practice (src/src/main.rs): three amethyst systems that    *)
(* share a terminal handle, an event channel, a circular buffer of press   *)
(* instants and a Stats resource, dispatched once per tick in the order    *)
(* declared in main().                                                     *)
(*                                                                         *)
(* Time is counted in hundredths of a second (10 ms).  At this resolution  *)
(* the two float comparisons of the program are exact: Duration values     *)
(* that are multiples of 10 ms convert to f32/f64 on the same side of 1.0  *)
(* and of 0.01 as the integers below are of 100 and of 1.                  *)
(* Floating point quotients are kept as exact fractions [num, den]; a      *)
(* fraction with den = 0 is the non-finite value (inf) that f64 division   *)
(* by 0.0 produces.                                                        *)
(***************************************************************************)
EXTENDS Integers, Sequences, FiniteSets, TLC

VARIABLES
    sys,        \* dispatcher: state of each system in the current tick
    pending,    \* terminal: raw keys typed and not yet returned by get_input
    channel,    \* EventChannel<InputEvent>: events written and not yet read
    reader,     \* OsuInputSystem.reader: None, or the registered ReaderId
    iter,       \* OsuInputSystem::run: events left in the read() iterator
    stats,      \* Stats resource
    buf,        \* CircularBuffer<Instant>: the queue
    clock,      \* the monotonic clock read by Instant::now()
    advances,   \* number of times the clock has moved so far (environment)
    sink,       \* display: operations issued to the terminal in this tick
                \* (emptied when the tick ends)
    pushed,     \* history: every instant ever pushed into buf, in order
    polled,     \* history: mapped keys returned by get_input in this tick
    aggregated, \* history: presses aggregated in this tick
    discarded,  \* history: unmapped keys returned by get_input in this tick
    tickStart,  \* history: Stats and the queue when this tick began
                \* (the four are reset when the tick ends)
    everReset,  \* history: some press has reset the combo
    app,        \* the application: starting, running or aborted
    world,      \* resources inserted into the world by on_start
    startup     \* history: outcome of on_start, kept until the first tick

terminal == <<pending, sink>>

events == <<channel, reader, iter>>

time == <<clock, advances>>

tickHistory == <<polled, aggregated, discarded, tickStart>>

presses == <<pushed, everReset>>

boot == <<app, world, startup>>

vars ==
    <<sys, terminal, events, stats, buf, time, presses, tickHistory, boot>>

----------------------------------------------------------------------------
(* Bounds of the exploration *)

MaxKeys == 9
MaxTickKeys == 2
MaxAdvances == 2

(* Program constants, in model time units *)

Capacity == 8
ComboTimeout == 100
AvgThreshold == 1
BpmFactor == 60

(* Inputs *)

RawKeys == {"x", "b", "q"}
Deltas == {0, 30, 100, 120}
Skews == {0, 1}

None == -1

ReaderId == 0

----------------------------------------------------------------------------
(* Resources and their initial values *)

StatsDefaultOne == [total |-> 1, combo |-> 1, score |-> 1]

StatsDefault == [total |-> 0, combo |-> 0, score |-> 0]

KeymapWithQ == {"x", "b", "q"}

KeymapDefault == {"x", "b"}

Systems == {"curses_input", "osu_input", "curses_render"}

DepsRenderFree ==
    [s \in Systems |->
        CASE s = "curses_input" -> {}
          [] s = "osu_input" -> {"curses_input"}
          [] s = "curses_render" -> {}]

Deps ==
    [s \in Systems |->
        CASE s = "curses_input" -> {}
          [] s = "osu_input" -> {"curses_input"}
          [] s = "curses_render" -> {"osu_input"}]

Resources == {"EventChannel", "Curses", "Keymap", "Stats", "CircularBuffer"}

InputSystemData ==
    [write |-> {"EventChannel", "Curses"}, read |-> {"Keymap"}]

OsuSystemData ==
    [write |-> {"EventChannel", "Stats", "CircularBuffer"}, read |-> {}]

RenderSystemData ==
    [write |-> {"Curses"}, read |-> {"CircularBuffer", "Stats"}]

SystemData(s) ==
    CASE s = "curses_input" -> InputSystemData
      [] s = "osu_input" -> OsuSystemData
      [] s = "curses_render" -> RenderSystemData

----------------------------------------------------------------------------
(* CircularBuffer *)

PushNoEvict(q, t) == Append(q, t)

PushRestart(q, t) ==
    IF Len(q) = Capacity THEN <<t>> ELSE Append(q, t)

Push(q, t) ==
    IF Len(q) = Capacity THEN Append(Tail(q), t) ELSE Append(q, t)

Front(q) == q[1]

Back(q) == q[Len(q)]

----------------------------------------------------------------------------
(* Fractions *)

Frac(n, d) == [num |-> n, den |-> d]

Whole(n) == Frac(n, 1)

Finite(r) == r.den # 0

----------------------------------------------------------------------------
Init ==
    /\ sys = [s \in Systems |-> "idle"]
    /\ pending = <<>>
    /\ channel = 0
    /\ reader = None
    /\ iter = None
    /\ stats = StatsDefault
    /\ buf = <<>>
    /\ clock = 0
    /\ advances = 0
    /\ sink = <<>>
    /\ pushed = <<>>
    /\ polled = 0
    /\ aggregated = 0
    /\ discarded = 0
    /\ tickStart = [stats |-> StatsDefault, buf |-> <<>>]
    /\ everReset = FALSE
    /\ app = "starting"
    /\ world = {}
    /\ startup = "pending"

----------------------------------------------------------------------------
(* InitState::on_start.  initialize_system() may fail, and expect() then   *)
(* panics before anything is inserted.  The results of the calls that set  *)
(* the terminal modes are discarded: whether they succeed (modesOk) or     *)
(* not, the two resources are inserted and the application runs.           *)

OnStartResources == {"Curses", "CircularBuffer"}

InputTimeoutNever == "Never"

InputTimeout == "Immediate"

OnStart(initOk, modesOk) ==
    /\ app = "starting"
    /\ IF initOk
          THEN /\ app' = "running"
               /\ world' = OnStartResources
               /\ startup' = IF modesOk THEN "ok" ELSE "mode_failed"
          ELSE /\ app' = "aborted"
               /\ world' = {}
               /\ startup' = "init_failed"
    /\ UNCHANGED <<sys, terminal, events, stats, buf, time, presses,
                   tickHistory>>

----------------------------------------------------------------------------
(* Environment: a key is typed at the terminal.  A key typed after the     *)
(* capture stage has returned waits in the terminal until the next tick,   *)
(* exactly as one typed between ticks, so keys arrive between ticks or     *)
(* while CursesInputSystem is waiting or running.  MaxTickKeys bounds the  *)
(* keys one tick polls, MaxKeys the presses aggregated so far plus the     *)
(* keys in flight.                                                         *)

KeyTyped(k) ==
    /\ app = "running"
    /\ sys["curses_input"] # "done"
    /\ polled + discarded + Len(pending) < MaxTickKeys
    /\ Len(pushed) + channel + discarded + Len(pending) < MaxKeys
    /\ pending' = Append(pending, k)
    /\ UNCHANGED <<sys, sink, events, stats, buf, time, presses, tickHistory,
                   boot>>

----------------------------------------------------------------------------
(* Instant::now(): the clock never goes back; d is the time that passes *)

Elapse(d) ==
    /\ d # 0 => advances < MaxAdvances
    /\ clock' = clock + d
    /\ advances' = IF d # 0 THEN advances + 1 ELSE advances

----------------------------------------------------------------------------
(* Dispatcher: one dispatch per tick, each system after its dependencies *)

BeginTick(d) ==
    /\ app = "running"
    /\ \A s \in Systems : sys[s] = "idle"
    /\ Elapse(d)
    /\ sys' = [s \in Systems |-> "waiting"]
    /\ startup' = "past"
    /\ UNCHANGED <<terminal, events, stats, buf, presses, tickHistory, app,
                   world>>

Start(s) ==
    /\ sys[s] = "waiting"
    /\ \A d \in Deps[s] : sys[d] = "done"
    /\ sys' = [sys EXCEPT ![s] = "running"]
    /\ UNCHANGED <<terminal, events, stats, buf, time, presses, tickHistory,
                   boot>>

EndTick ==
    /\ \A s \in Systems : sys[s] = "done"
    /\ sys' = [s \in Systems |-> "idle"]
    /\ sink' = <<>>
    /\ polled' = 0
    /\ aggregated' = 0
    /\ discarded' = 0
    /\ tickStart' = [stats |-> stats, buf |-> buf]
    /\ UNCHANGED <<pending, events, stats, buf, time, presses, boot>>

----------------------------------------------------------------------------
(* CursesInputSystem::run, one iteration of the while-let loop per step *)

InputPoll ==
    /\ sys["curses_input"] = "running"
    /\ pending # <<>>
    /\ pending' = Tail(pending)
    /\ IF Head(pending) \in KeymapDefault
          THEN /\ channel' = channel + 1
               /\ polled' = polled + 1
               /\ UNCHANGED discarded
          ELSE /\ discarded' = discarded + 1
               /\ UNCHANGED <<channel, polled>>
    /\ UNCHANGED <<sys, sink, reader, iter, stats, buf, time, presses,
                   aggregated, tickStart, boot>>

InputReturn ==
    /\ sys["curses_input"] = "running"
    /\ pending = <<>>
    /\ InputTimeout = "Immediate"
    /\ sys' = [sys EXCEPT !["curses_input"] = "done"]
    /\ UNCHANGED <<terminal, events, stats, buf, time, presses, tickHistory,
                   boot>>

----------------------------------------------------------------------------
(* OsuInputSystem::run *)

(* EventChannel::register_reader: a new reader starts at the end of the    *)
(* channel, so it is handed none of the ch events written before it.       *)
RegisterReader(ch) == 0

OsuRead ==
    /\ sys["osu_input"] = "running"
    /\ iter = None
    /\ iter' = IF reader = None THEN RegisterReader(channel) ELSE channel
    /\ reader' = ReaderId
    /\ channel' = 0
    /\ UNCHANGED <<sys, terminal, stats, buf, time, presses, tickHistory,
                   boot>>

ComboAfterGapAtLeast(combo, q, now) ==
    IF q # <<>> /\ now - Back(q) >= ComboTimeout THEN 0 ELSE combo

ComboAfterGap(combo, q, now) ==
    IF q # <<>> /\ now - Back(q) > ComboTimeout THEN 0 ELSE combo

OnInputScoreFirst(st, q, now) ==
    LET combo == ComboAfterGap(st.combo, q, now)
    IN [total |-> st.total + 1,
        combo |-> combo + 1,
        score |-> st.score + combo]

OnInputScoreRestarts(st, q, now) ==
    LET combo == ComboAfterGap(st.combo, q, now) + 1
    IN [total |-> st.total + 1,
        combo |-> combo,
        score |-> IF combo = 1 THEN 1 ELSE st.score + combo]

OnInputResetLast(st, q, now) ==
    LET combo == ComboAfterGap(st.combo + 1, q, now)
    IN [total |-> st.total + 1,
        combo |-> combo,
        score |-> st.score + combo]

OnInput(st, q, now) ==
    LET combo == ComboAfterGap(st.combo, q, now) + 1
    IN [total |-> st.total + 1,
        combo |-> combo,
        score |-> st.score + combo]

(* One iteration of the for loop.  Instant::now() is called twice: the     *)
(* reset test reads the clock, then skew passes, then the push reads it.   *)
OsuEvent(skew) ==
    /\ sys["osu_input"] = "running"
    /\ iter # None
    /\ iter > 0
    /\ Elapse(skew)
    /\ stats' = OnInput(stats, buf, clock)
    /\ buf' = Push(buf, clock + skew)
    /\ pushed' = Append(pushed, clock + skew)
    /\ everReset' = (everReset \/ ComboAfterGap(1, buf, clock) = 0)
    /\ iter' = iter - 1
    /\ aggregated' = aggregated + 1
    /\ UNCHANGED <<sys, terminal, channel, reader, polled, discarded,
                   tickStart, boot>>

OsuReturn ==
    /\ sys["osu_input"] = "running"
    /\ iter = 0
    /\ iter' = None
    /\ sys' = [sys EXCEPT !["osu_input"] = "done"]
    /\ UNCHANGED <<terminal, channel, reader, stats, buf, time, presses,
                   tickHistory, boot>>

----------------------------------------------------------------------------
(* CursesRenderSystem::run *)

RECURSIVE SumSince(_, _, _)
SumSince(q, i, start) ==
    IF i > Len(q) THEN 0 ELSE (q[i] - start) + SumSince(q, i + 1, start)

RawSum(q) == SumSince(q, 2, Front(q))

DividesAtThreshold(q) == RawSum(q) >= AvgThreshold

DividesFromZero(q) == RawSum(q) >= 0

Divides(q) == RawSum(q) > AvgThreshold

Avg(q) ==
    IF Divides(q) THEN Frac(RawSum(q), Len(q) - 1) ELSE Whole(RawSum(q))

Kps(avg) == Frac(avg.den, avg.num)

Bpm(avg) == Frac(avg.den * BpmFactor, avg.num)

Op(kind, row, label, val) ==
    [op |-> kind, row |-> row, label |-> label, val |-> val]

Clear == Op("clear", None, "", Whole(0))

Refresh == Op("refresh", None, "", Whole(0))

PrintAt(row, label, val) == Op("print", row, label, val)

MetricLines(q) ==
    << PrintAt(0, "Average delay between presses", Avg(q)),
       PrintAt(1, "KPS", Kps(Avg(q))),
       PrintAt(2, "BPM", Bpm(Avg(q))) >>

StatsLines(st) ==
    << PrintAt(4, "Total Presses", Whole(st.total)),
       PrintAt(5, "Combo", Whole(st.combo)),
       PrintAt(6, "Score", Whole(st.score)) >>

BodyStatsFirst(q, st) ==
    IF q # <<>> THEN StatsLines(st) \o MetricLines(q) ELSE <<>>

Body(q, st) ==
    IF q # <<>> THEN MetricLines(q) \o StatsLines(st) ELSE <<>>

Frame(q, st) == <<Clear>> \o Body(q, st) \o <<Refresh>>

RenderRun ==
    /\ sys["curses_render"] = "running"
    /\ sink' = sink \o Frame(buf, stats)
    /\ sys' = [sys EXCEPT !["curses_render"] = "done"]
    /\ UNCHANGED <<pending, events, stats, buf, time, presses, tickHistory,
                   boot>>

----------------------------------------------------------------------------
Next ==
    \/ \E initOk, modesOk \in BOOLEAN : OnStart(initOk, modesOk)
    \/ \E k \in RawKeys : KeyTyped(k)
    \/ \E d \in Deltas : BeginTick(d)
    \/ \E s \in Systems : Start(s)
    \/ EndTick
    \/ InputPoll
    \/ InputReturn
    \/ OsuRead
    \/ \E skew \in Skews : OsuEvent(skew)
    \/ OsuReturn
    \/ RenderRun

Spec == Init /\ [][Next]_vars

(* Once dispatched, the systems of a tick are run to completion: a step of *)
(* the dispatcher or of a system that stays possible is eventually taken.  *)
(* Nothing obliges the user to type or the application to start.  No       *)
(* guard of a dispatcher or system step reads the clock, so progress is    *)
(* explored over the runs in which the clock stands still.                 *)
Dispatch ==
    \/ \E s \in Systems : Start(s)
    \/ EndTick
    \/ InputPoll
    \/ InputReturn
    \/ OsuRead
    \/ \E skew \in Skews : OsuEvent(skew)
    \/ OsuReturn
    \/ RenderRun

StillNext == Next /\ UNCHANGED time

LiveSpec ==
    Init /\ [][StillNext]_vars /\ WF_vars(Dispatch /\ UNCHANGED time)

----------------------------------------------------------------------------
(* Properties *)

FrameEmitted == sink # <<>>

AllDone == \A s \in Systems : sys[s] = "done"

Printed(row) ==
    {sink[i].val : i \in {j \in DOMAIN sink :
                           sink[j].op = "print" /\ sink[j].row = row}}

RECURSIVE SeqTotal(_)
SeqTotal(q) == IF q = <<>> THEN 0 ELSE Head(q) + SeqTotal(Tail(q))

(* C1: the window never holds more than 8 instants; it holds exactly the  *)
(* last min(n, 8) of the n instants pushed so far, in push order, which is *)
(* non-decreasing; after 9 pushes it holds pushes 2..9.                    *)
C1_WindowHoldsLastPushes ==
    LET n == Len(pushed)
        m == IF n < 8 THEN n ELSE 8
    IN /\ n = stats.total
       /\ Len(buf) = m
       /\ \A i \in 1..m : buf[i] = pushed[n - m + i]
       /\ \A i \in 1..(m - 1) : buf[i] <= buf[i + 1]
       /\ n = 9 => buf = SubSeq(pushed, 2, 9)

C1_Witness ==
    /\ Len(pushed) = 9
    /\ pushed[1] < pushed[2]
    /\ Len(buf) = 8
    /\ Front(buf) = pushed[2]
    /\ Back(buf) = pushed[9]

(* C2: each aggregated press, with now the clock at the reset test: if the *)
(* window is non-empty and now - back > 1.0 s the combo restarts from 0;   *)
(* then combo grows by 1, score by the new combo and total by 1.  Presses  *)
(* at 0.0, 0.3, 0.6 s end with total 3, combo 3, score 6; presses at 0.0,  *)
(* 0.3, 1.5 s end with total 3, combo 1, score 4.                          *)
C2_PressUpdatesStats ==
    [][stats'.total # stats.total =>
        LET reset == buf # <<>> /\ clock - buf[Len(buf)] > 100
            combo == (IF reset THEN 0 ELSE stats.combo) + 1
        IN /\ stats'.combo = combo
           /\ stats'.score = stats.score + combo
           /\ stats'.total = stats.total + 1
           /\ pushed' = <<0, 30, 60>> =>
                 stats' = [total |-> 3, combo |-> 3, score |-> 6]
           /\ pushed' = <<0, 30, 150>> =>
                 stats' = [total |-> 3, combo |-> 1, score |-> 4]]_vars

C2_Witness ==
    /\ pushed = <<0, 30, 150>>
    /\ stats = [total |-> 3, combo |-> 1, score |-> 4]

(* C3: in every tick, the first included, once the aggregation stage has   *)
(* returned it has aggregated exactly the mapped keys the capture stage    *)
(* polled in that tick, and no event is left over for a later tick.        *)
C3_EveryPolledKeyAggregated ==
    sys["osu_input"] = "done" => aggregated = polled /\ channel = 0

(* C4: stages run in the order capture, aggregation, presentation without  *)
(* overlap, and the frame of a tick shows every press captured in it.      *)
C4_FrameReflectsTick ==
    /\ sys["osu_input"] \in {"running", "done"} =>
          sys["curses_input"] = "done"
    /\ sys["curses_render"] \in {"running", "done"} =>
          sys["osu_input"] = "done"
    /\ (sys["curses_render"] = "done" /\ polled > 0) =>
          Printed(4) = {Whole(tickStart.stats.total + polled)}

(* C5: no two systems run at the same time when one writes a resource the  *)
(* other reads or writes; in particular the two systems that write Curses  *)
(* never run at the same time.                                             *)
C5_NoConflictingAccess ==
    /\ \A s, t \in Systems :
          (s # t /\ sys[s] = "running" /\ sys[t] = "running") =>
             /\ SystemData(s).write \cap SystemData(t).write = {}
             /\ SystemData(s).write \cap SystemData(t).read = {}
    /\ ~(sys["curses_input"] = "running" /\ sys["curses_render"] = "running")

C5_Witness ==
    /\ sys["curses_render"] = "running"
    /\ sys["curses_input"] = "done"
    /\ sys["osu_input"] = "done"
    /\ aggregated > 0

(* C6: polling a key other than x and b writes no event and leaves Stats   *)
(* and the window unchanged; a tick in which only such keys were polled    *)
(* ends with the Stats and the window it began with.                       *)
C6_UnmappedKeyIgnored ==
    /\ [][(/\ sys["curses_input"] = "running"
           /\ pending # <<>>
           /\ pending' = Tail(pending)
           /\ Head(pending) \notin {"x", "b"}) =>
             (channel' = channel /\ stats' = stats /\ buf' = buf)]_vars
    /\ [](AllDone /\ polled = 0 /\ discarded > 0 =>
             (stats = tickStart.stats /\ buf = tickStart.buf /\ channel = 0))

C6_Witness ==
    /\ AllDone
    /\ polled = 0
    /\ discarded > 0
    /\ stats.total > 0
    /\ stats = tickStart.stats
    /\ buf = tickStart.buf

(* C7: for a non-empty window with front t0 and S the sum of t_i - t0 over *)
(* the other entries, the average shown is S / (length - 1) when           *)
(* S > 0.01 s and S itself otherwise, S = 0.01 s included.                 *)
C7_AvgFormula ==
    (FrameEmitted /\ buf # <<>>) =>
        LET S == SeqTotal(buf) - Len(buf) * buf[1]
        IN Printed(0) = {IF S > 1 THEN Frac(S, Len(buf) - 1) ELSE Frac(S, 1)}

C7_Witness ==
    /\ FrameEmitted
    /\ buf = <<0, 0, 1>>
    /\ Printed(0) = {Frac(1, 1)}

(* C8: with one retained instant the average shown is the empty sum 0 and  *)
(* the frame is completed; whenever the sum is divided the window holds at *)
(* least 2 entries and the divisor, length - 1, is not 0.                  *)
C8_NoDivisionByZero ==
    (FrameEmitted /\ buf # <<>>) =>
        /\ Printed(0) # {}
        /\ \A v \in Printed(0) :
              /\ v.den >= 1
              /\ v.den # 1 => (Len(buf) >= 2 /\ v.den = Len(buf) - 1)
              /\ Len(buf) = 1 => v = Frac(0, 1)
        /\ sink[Len(sink)].op = "refresh"

C8_Witness ==
    /\ FrameEmitted
    /\ Len(buf) = 1
    /\ Printed(0) = {Frac(0, 1)}
    /\ sink[Len(sink)].op = "refresh"

(* C9: when the average is 0 (one retained instant, or all retained        *)
(* instants equal) no non-finite rate or BPM value reaches the display.    *)
C9_NoNonFiniteMetric ==
    (FrameEmitted /\ buf # <<>> /\ \A i \in DOMAIN buf : buf[i] = buf[1]) =>
        \A i \in DOMAIN sink : sink[i].val.den # 0

(* C10: with an empty window the frame holds the three Stats lines, all    *)
(* zero, and no average, rate or BPM line.                                 *)
C10_EmptyWindowFrame ==
    (FrameEmitted /\ buf = <<>>) =>
        /\ Printed(4) = {Whole(0)}
        /\ Printed(5) = {Whole(0)}
        /\ Printed(6) = {Whole(0)}
        /\ Printed(0) = {}
        /\ Printed(1) = {}
        /\ Printed(2) = {}

(* C11: in every step total and score do not decrease; a step that         *)
(* aggregates a press raises total by exactly 1 and score by exactly the   *)
(* new combo, which is at least 1; no other step changes total or score.   *)
C11_CountersMonotone ==
    [][/\ stats'.total >= stats.total
       /\ stats'.score >= stats.score
       /\ pushed' # pushed =>
             /\ stats'.total = stats.total + 1
             /\ stats'.combo >= 1
             /\ stats'.score = stats.score + stats'.combo
       /\ pushed' = pushed =>
             (stats'.total = stats.total /\ stats'.score = stats.score)]_vars

C11_Witness ==
    /\ Len(pushed) = 2
    /\ pushed[2] - pushed[1] = 120
    /\ stats = [total |-> 2, combo |-> 1, score |-> 2]

(* C12 as stated: a press whose reset test finds a gap of at least 1.0 s   *)
(* since the previous press, exactly 1.0 s included, leaves combo at 1.    *)
C12_ResetAtOneSecond ==
    [][(pushed' # pushed /\ buf # <<>> /\ clock - buf[Len(buf)] >= 100) =>
          stats'.combo = 1]_vars

(* C12 amended: the combo is reset only by a gap strictly greater than     *)
(* 1.0 s; a press whose reset test finds a gap of at most 1.0 s, exactly   *)
(* 1.0 s included, continues the streak: combo grows by 1.                 *)
C12_ResetOnlyAboveOneSecond ==
    [][(pushed' # pushed /\ buf # <<>>) =>
          /\ clock - buf[Len(buf)] <= 100 => stats'.combo = stats.combo + 1
          /\ stats'.combo = 1 => clock - buf[Len(buf)] > 100]_vars

C12_Witness ==
    /\ pushed = <<0, 100>>
    /\ stats = [total |-> 2, combo |-> 2, score |-> 3]

(* C13: Stats starts as total = combo = score = 0 with an empty window     *)
(* that never exceeds 8 entries; only steps of the aggregation stage       *)
(* change Stats or the window, and no step taken while the capture stage   *)
(* or the presentation stage runs changes them.                            *)
C13_OnlyAggregationWrites ==
    /\ stats = [total |-> 0, combo |-> 0, score |-> 0]
    /\ buf = <<>>
    /\ [](Len(buf) <= 8)
    /\ [][/\ (stats' # stats \/ buf' # buf) =>
                (sys["osu_input"] = "running" /\ sys'["osu_input"] = "running")
          /\ (sys["curses_input"] = "running"
                \/ sys["curses_render"] = "running") =>
                (stats' = stats /\ buf' = buf)]_vars

C13_Witness ==
    /\ AllDone
    /\ polled > 0
    /\ aggregated = polled
    /\ sink # <<>>
    /\ stats # tickStart.stats
    /\ buf # tickStart.buf

(* C14: every started tick eventually has run its three stages, the        *)
(* presentation stage last, and then returns to idle; this includes ticks  *)
(* in which no key is pending when the capture stage polls.                *)
C14_TickCompletes ==
    /\ (\E s \in Systems : sys[s] # "idle") ~> AllDone
    /\ AllDone ~> (\A s \in Systems : sys[s] = "idle")

C14_Witness ==
    /\ AllDone
    /\ polled = 0
    /\ discarded = 0
    /\ pending = <<>>
    /\ sink # <<>>
    /\ reader # None

(* C15: when on_start cannot initialise the terminal or cannot set one of  *)
(* the required modes, the process aborts: no resource has been inserted   *)
(* and no system is ever dispatched.                                       *)
C15_StartupFailureAborts ==
    startup \in {"init_failed", "mode_failed"} =>
        /\ app = "aborted"
        /\ world = {}
        /\ \A s \in Systems : sys[s] = "idle"

Prints == SelectSeq(sink, LAMBDA o : o.op = "print")

Rows == [i \in DOMAIN Prints |-> Prints[i].row]

Labels == [i \in DOMAIN Prints |-> Prints[i].label]

CountOp(kind) == Cardinality({i \in DOMAIN sink : sink[i].op = kind})

C17_PushedInstantIsTestedInstant ==
    [][pushed' # pushed =>
          /\ buf'[Len(buf')] = clock
          /\ buf # <<>> =>
                (stats'.combo = 1 <=> buf'[Len(buf')] - buf[Len(buf)] > 100)
      ]_vars

(* C18: the window length is min(total, 8), so the window is non-empty     *)
(* exactly when total >= 1; a non-empty window never becomes empty, and    *)
(* every frame emitted after the first aggregated press has the six lines. *)
C18_WindowLengthFollowsTotal ==
    /\ [](/\ Len(buf) = (IF stats.total < 8 THEN stats.total ELSE 8)
          /\ buf # <<>> <=> stats.total >= 1
          /\ (FrameEmitted /\ stats.total >= 1) =>
                /\ CountOp("print") = 6
                /\ \A r \in {0, 1, 2, 4, 5, 6} : Printed(r) # {})
    /\ [][buf # <<>> => buf' # <<>>]_vars

C18_Witness ==
    /\ FrameEmitted
    /\ stats.total = 9
    /\ Len(buf) = 8
    /\ CountOp("print") = 6

(* C19: combo <= total; combo >= 1 exactly when total >= 1; total <= score *)
(* <= total * (total + 1) / 2, and score reaches that maximum exactly when *)
(* no press has ever reset the combo.                                      *)
C19_StatsBounds ==
    LET max == (stats.total * (stats.total + 1)) \div 2
    IN /\ stats.combo <= stats.total
       /\ stats.combo >= 1 <=> stats.total >= 1
       /\ stats.total <= stats.score
       /\ stats.score <= max
       /\ stats.score = max <=> ~everReset

C19_Witness ==
    /\ everReset
    /\ stats.total = 3
    /\ stats.combo = 2
    /\ stats.score = 4

====
